---- MODULE Spec2Model ----
(***************************************************************************)
(* Binding index registry of the Metal renderer                            *)
(* (src/render/bindings/metal_bindings.h).                                 *)
(*                                                                         *)
(* The header declares two C enumerations, VertexInputIndex and            *)
(* FragmentInputIndex.  The model keeps the two declarations as written    *)
(* (enumerator name, explicit initialiser), computes the enumerator values *)
(* by the C rule for enumerations, and lets a host program look the        *)
(* constants up and bind resources to the slots they name.                 *)
(***************************************************************************)
EXTENDS Integers, Sequences, FiniteSets, TLC

(* Bounds of the model. *)
MaxLookups == 3
NumResources == 1

Resources == 1..NumResources

Stages == {"vertex", "fragment"}

(***************************************************************************)
(* The declarations, in declaration order.  explicit says whether the      *)
(* enumerator carries an "= n" initialiser and init is that n.             *)
(***************************************************************************)
VertexInputIndex_Renumbered ==
    << [name |-> "VertexInputIndexMatrix",   explicit |-> TRUE, init |-> 0],
       [name |-> "VertexInputIndexVertices", explicit |-> TRUE, init |-> 2],
       [name |-> "VertexTextureMatrix",      explicit |-> TRUE, init |-> 1] >>

VertexInputIndex_Gap ==
    << [name |-> "VertexInputIndexMatrix",   explicit |-> TRUE, init |-> 0],
       [name |-> "VertexInputIndexVertices", explicit |-> TRUE, init |-> 1],
       [name |-> "VertexTextureMatrix",      explicit |-> TRUE, init |-> 3] >>

VertexInputIndex ==
    << [name |-> "VertexInputIndexMatrix",   explicit |-> TRUE, init |-> 0],
       [name |-> "VertexInputIndexVertices", explicit |-> TRUE, init |-> 1],
       [name |-> "VertexTextureMatrix",      explicit |-> TRUE, init |-> 2] >>

FragmentInputIndex_Renumbered ==
    << [name |-> "FragmentIndexTexture",         explicit |-> TRUE, init |-> 1],
       [name |-> "FragmentIndexEraseTexture",    explicit |-> TRUE, init |-> 0],
       [name |-> "FragmentIndexClipMaskTexture", explicit |-> TRUE, init |-> 2] >>

FragmentInputIndex_Extra ==
    << [name |-> "FragmentIndexTexture",         explicit |-> TRUE, init |-> 0],
       [name |-> "FragmentIndexEraseTexture",    explicit |-> TRUE, init |-> 1],
       [name |-> "FragmentIndexClipMaskTexture", explicit |-> TRUE, init |-> 2],
       [name |-> "FragmentIndexExtraTexture",    explicit |-> TRUE, init |-> 3] >>

FragmentInputIndex_OneBased ==
    << [name |-> "FragmentIndexTexture",         explicit |-> TRUE, init |-> 1],
       [name |-> "FragmentIndexEraseTexture",    explicit |-> TRUE, init |-> 2],
       [name |-> "FragmentIndexClipMaskTexture", explicit |-> TRUE, init |-> 3] >>

FragmentInputIndex ==
    << [name |-> "FragmentIndexTexture",         explicit |-> TRUE, init |-> 0],
       [name |-> "FragmentIndexEraseTexture",    explicit |-> TRUE, init |-> 1],
       [name |-> "FragmentIndexClipMaskTexture", explicit |-> TRUE, init |-> 2] >>

(***************************************************************************)
(* Value of the i-th enumerator of a declaration, by the C rule: its       *)
(* initialiser when it has one, otherwise 0 for the first enumerator and   *)
(* one more than its predecessor for a later one.                          *)
(***************************************************************************)
RECURSIVE EnumeratorValue(_, _)
EnumeratorValue(decl, i) ==
    IF decl[i].explicit THEN decl[i].init
    ELSE IF i = 1 THEN 0
    ELSE EnumeratorValue(decl, i - 1) + 1

(* The (name, slot) pairs a declaration defines, in declaration order. *)
EnumTable(decl) ==
    [i \in DOMAIN decl |-> [name |-> decl[i].name, slot |-> EnumeratorValue(decl, i)]]

Declaration(stage) ==
    IF stage = "vertex" THEN VertexInputIndex ELSE FragmentInputIndex

VARIABLES
    registry,   \* stage -> sequence of [name, slot]: the constants as compiled
    lookups,    \* the lookups the host program has made, oldest first
    bound       \* stage -> (slot -> resource): the bindings of each pipeline stage

vars == <<registry, lookups, bound>>

Names(stage) == {registry[stage][i].name : i \in DOMAIN registry[stage]}

(* The slot a name of a stage resolves to. *)
SlotOf(stage, name) ==
    LET i == CHOOSE j \in DOMAIN registry[stage] : registry[stage][j].name = name
    IN  registry[stage][i].slot

Init ==
    /\ registry = [s \in Stages |-> EnumTable(Declaration(s))]
    /\ lookups = << >>
    /\ bound = [s \in Stages |-> << >>]

(***************************************************************************)
(* Use of an enumerator in an expression: it yields the enumerator's value *)
(* and changes nothing.                                                    *)
(***************************************************************************)
Lookup_Clobbering(stage, name) ==
    /\ Len(lookups) < MaxLookups
    /\ name \in Names(stage)
    /\ lookups' = Append(lookups, [stage |-> stage, name |-> name, slot |-> SlotOf(stage, name)])
    /\ registry' = [registry EXCEPT ![stage] =
            [i \in DOMAIN registry[stage] |->
                IF registry[stage][i].name = name
                THEN [name |-> name, slot |-> registry[stage][i].slot + 1]
                ELSE registry[stage][i]]]
    /\ UNCHANGED bound

Lookup(stage, name) ==
    /\ Len(lookups) < MaxLookups
    /\ name \in Names(stage)
    /\ lookups' = Append(lookups, [stage |-> stage, name |-> name, slot |-> SlotOf(stage, name)])
    /\ UNCHANGED <<registry, bound>>

LookupVertex == \E name \in Names("vertex") : Lookup("vertex", name)

LookupFragment == \E name \in Names("fragment") : Lookup("fragment", name)

(* A binding table with slot set to resource r. *)
SetSlot(table, slot, r) ==
    [s \in (DOMAIN table) \cup {slot} |-> IF s = slot THEN r ELSE table[s]]

(***************************************************************************)
(* Binding a resource to the slot of a stage that a name denotes.  A       *)
(* binding is identified by the pair (stage, slot).                        *)
(***************************************************************************)
Bind_SlotOnly(stage, name, r) ==
    /\ name \in Names(stage)
    /\ bound' = [s \in Stages |-> SetSlot(bound[s], SlotOf(stage, name), r)]
    /\ UNCHANGED <<registry, lookups>>

Bind(stage, name, r) ==
    /\ name \in Names(stage)
    /\ bound' = [bound EXCEPT ![stage] = SetSlot(bound[stage], SlotOf(stage, name), r)]
    /\ UNCHANGED <<registry, lookups>>

BindVertex == \E name \in Names("vertex"), r \in Resources : Bind("vertex", name, r)

BindFragment == \E name \in Names("fragment"), r \in Resources : Bind("fragment", name, r)

Next ==
    \/ LookupVertex
    \/ LookupFragment
    \/ BindVertex
    \/ BindFragment

Spec == Init /\ [][Next]_vars

(***************************************************************************)
(* Properties                                                              *)
(***************************************************************************)

(* The literal table of the external interface, by enumerator. *)
VertexTable ==
    [VertexInputIndexMatrix |-> 0, VertexInputIndexVertices |-> 1, VertexTextureMatrix |-> 2]

FragmentTable ==
    [FragmentIndexTexture |-> 0, FragmentIndexEraseTexture |-> 1, FragmentIndexClipMaskTexture |-> 2]

LookedUp(stage) == {lookups[i].name : i \in {j \in DOMAIN lookups : lookups[j].stage = stage}}

Slots(stage) == {registry[stage][i].slot : i \in DOMAIN registry[stage]}

(* The declaration with every "= n" initialiser dropped. *)
DropInitialisers(decl) ==
    [i \in DOMAIN decl |-> [name |-> decl[i].name, explicit |-> FALSE, init |-> 0]]

(* C1: the vertex-stage names are exactly Matrix, Vertices, TextureMatrix and
   resolve to 0, 1, 2; every vertex lookup made so far returned the table's value. *)
C1_VertexSlotsMatchTable ==
    /\ Names("vertex") = DOMAIN VertexTable
    /\ \A n \in DOMAIN VertexTable : SlotOf("vertex", n) = VertexTable[n]
    /\ \A i \in DOMAIN lookups :
          lookups[i].stage = "vertex" => lookups[i].slot = VertexTable[lookups[i].name]

C1_Witness == LookedUp("vertex") = DOMAIN VertexTable

(* C2: the fragment-stage names are exactly Texture, EraseTexture, ClipMaskTexture
   and resolve to 0, 1, 2; every fragment lookup made so far returned the table's value. *)
C2_FragmentSlotsMatchTable ==
    /\ Names("fragment") = DOMAIN FragmentTable
    /\ \A n \in DOMAIN FragmentTable : SlotOf("fragment", n) = FragmentTable[n]
    /\ \A i \in DOMAIN lookups :
          lookups[i].stage = "fragment" => lookups[i].slot = FragmentTable[lookups[i].name]

C2_Witness == LookedUp("fragment") = DOMAIN FragmentTable

(* C3: in each namespace the set of slot values is the range 0..count-1, where
   count is the number of members, and two different members never share a slot;
   two lookups of different names of one stage never return the same slot. *)
C3_SlotsContiguousAndUnique ==
    /\ \A s \in Stages :
          /\ Slots(s) = 0..(Len(registry[s]) - 1)
          /\ \A i, j \in DOMAIN registry[s] :
                i # j => registry[s][i].slot # registry[s][j].slot
    /\ \A i, j \in DOMAIN lookups :
          (lookups[i].stage = lookups[j].stage /\ lookups[i].name # lookups[j].name)
             => lookups[i].slot # lookups[j].slot

C3_Witness ==
    /\ Len(lookups) = 3
    /\ \A i \in DOMAIN lookups : lookups[i].stage = "vertex"
    /\ Cardinality(LookedUp("vertex")) = 3
    /\ Cardinality(DOMAIN bound["fragment"]) = 3

(* C4: vertex slot 0 (Matrix) and fragment slot 0 (Texture) have the same integer
   value, yet every step that changes a vertex-stage binding leaves every
   fragment-stage binding unchanged, and every step that changes a fragment-stage
   binding leaves every vertex-stage binding unchanged. *)
C4_NamespacesIndependent ==
    [][ /\ SlotOf("vertex", "VertexInputIndexMatrix") = SlotOf("fragment", "FragmentIndexTexture")
        /\ bound'["vertex"] # bound["vertex"] => bound'["fragment"] = bound["fragment"]
        /\ bound'["fragment"] # bound["fragment"] => bound'["vertex"] = bound["vertex"] ]_vars

C4_Witness ==
    /\ 0 \in DOMAIN bound["vertex"]
    /\ 0 \notin DOMAIN bound["fragment"]
    /\ DOMAIN bound["fragment"] # {}

(* C5: in every reachable state, whatever lookups were made, each of the constants
   has the value its declaration gives it, and every lookup is possible without
   any step having to come first. *)
C5_ConstantsImmutable ==
    /\ registry = [s \in Stages |-> EnumTable(Declaration(s))]
    /\ Len(lookups) < MaxLookups =>
          \A s \in Stages : \A n \in Names(s) : ENABLED Lookup(s, n)

C5_Witness ==
    /\ Len(lookups) = MaxLookups
    /\ LookedUp("vertex") # {}
    /\ LookedUp("fragment") # {}

(* C6: each enumeration has exactly its three members, in declaration order, and
   its slot values are strictly increasing in that order. *)
C6_ClosedAndOrdered ==
    /\ [i \in DOMAIN registry["vertex"] |-> registry["vertex"][i].name]
          = <<"VertexInputIndexMatrix", "VertexInputIndexVertices", "VertexTextureMatrix">>
    /\ [i \in DOMAIN registry["fragment"] |-> registry["fragment"][i].name]
          = <<"FragmentIndexTexture", "FragmentIndexEraseTexture", "FragmentIndexClipMaskTexture">>
    /\ \A s \in Stages : \A i, j \in DOMAIN registry[s] :
          i < j => registry[s][i].slot < registry[s][j].slot

C6_Witness ==
    /\ Len(lookups) = 3
    /\ \A i \in DOMAIN lookups :
          lookups[i].stage = "fragment" /\ lookups[i].name = registry["fragment"][i].name
    /\ lookups[1].slot < lookups[2].slot
    /\ lookups[2].slot < lookups[3].slot

(* C7: the values the declarations give with their explicit initialisers are the
   values C's default numbering gives without them: every member's slot is its
   zero-based position in the declaration, and so is every slot a lookup returned. *)
C7_ExplicitIsDefaultNumbering ==
    /\ \A s \in Stages :
          /\ registry[s] = EnumTable(DropInitialisers(Declaration(s)))
          /\ \A i \in DOMAIN registry[s] : registry[s][i].slot = i - 1
    /\ \A k \in DOMAIN lookups :
          \E i \in DOMAIN Declaration(lookups[k].stage) :
             /\ Declaration(lookups[k].stage)[i].name = lookups[k].name
             /\ lookups[k].slot = i - 1

C7_Witness ==
    \E k \in DOMAIN lookups :
       /\ lookups[k].name = "FragmentIndexClipMaskTexture"
       /\ lookups[k].slot = 2
       /\ \E m \in DOMAIN lookups : lookups[m].name = "VertexTextureMatrix" /\ lookups[m].slot = 2

====
